---- MODULE Spec2Model ----
(***************************************************************************)
(* Model of datumaro.components.explorer: the Explorer similarity index    *)
(* (construction over datasets of items carrying HashKey annotations, and  *)
(* explore_topk queries ranked by Hamming distance).                       *)
(*                                                                         *)
(* Python values are modelled as records with a "kind" field, so that      *)
(* None, integers, HashKey annotations and launchers can be compared.      *)
(* Row indices are 1-based here (numpy's are 0-based).                     *)
(***************************************************************************)
EXTENDS Integers, Sequences, FiniteSets, TLC

\* ------------------------------------------------------------------ bounds
\* Largest number of items over all input datasets.
MaxItems == 2
\* Largest explicit topk argument of a query (the smallest is -1).
MaxK == 3
\* The topk argument the index is constructed with.
TopkArg == 2
\* Width in bits and largest number of rows of the matrices calculate_hamming is
\* applied to on its own.
HammingBits == 3
HammingRows == 2

\* ------------------------------------------------------- Python-like values
PyNone == [kind |-> "None"]
PyInt(n) == [kind |-> "int", val |-> n]
Label == [kind |-> "Label"]
HashKey(h) == [kind |-> "HashKey", hash_key |-> h]
VisualLauncher == [kind |-> "ExplorerLauncher", model_name |-> "clip_visual_ViT-B_32"]
TextLauncher == [kind |-> "ExplorerLauncher", model_name |-> "clip_text_ViT-B_32"]
DatasetItem(i, anns) == [kind |-> "DatasetItem", id |-> i, annotations |-> anns]

\* isinstance(annotation, HashKey)
IsHashKey(a) == a.kind = "HashKey"

\* `not topk`: None and 0 are falsy.
Falsy(x) == x.kind = "None" \/ (x.kind = "int" /\ x.val = 0)

\* ------------------------------------------------------------- input sets
\* A packed hash key is a sequence of bytes; BadKey is an array that is not
\* of dtype uint8, which np.unpackbits rejects.
BadKey == <<-1>>
InputAnnotations ==
    { <<>>,
      <<HashKey(<<0>>)>>,
      <<Label, HashKey(<<3>>)>>,
      <<HashKey(BadKey)>>,
      <<HashKey(<<0>>), HashKey(<<255>>)>> }
\* What the launcher yields for one input (run_model, infer_item, infer_text):
\* a HashKey, or None when the media has no data.
EmbedOutputs == { PyNone, HashKey(<<255>>) }
QueryItem(anns) == DatasetItem(0, anns)
Queries ==
    { QueryItem(<<>>),
      QueryItem(<<Label, HashKey(<<1>>)>>),
      QueryItem(<<HashKey(<<1>>), HashKey(<<3>>)>>),
      [kind |-> "str", text |-> "a photo"],
      PyInt(7) }
TopkArgs == {PyNone} \cup {PyInt(n) : n \in (-1)..MaxK}

\* --------------------------------------------------------- pure functions
Min(a, b) == IF a <= b THEN a ELSE b
Max(a, b) == IF a >= b THEN a ELSE b

RECURSIVE Pow2(_)
Pow2(n) == IF n = 0 THEN 1 ELSE 2 * Pow2(n - 1)

\* np.unpackbits accepts only uint8 arrays.
IsUint8Array(h) == \A i \in 1..Len(h) : h[i] \in 0..255

\* np.unpackbits(hash_key, axis=-1): 8 bits per byte, most significant first.
\* The result is an array of bits, kept as a record so that it can be compared
\* with None.
unpackbits(h) ==
    [kind |-> "ndarray",
     data |-> [j \in 1..(8 * Len(h)) |->
                 (h[((j - 1) \div 8) + 1] \div Pow2(7 - ((j - 1) % 8))) % 2]]

\* Faulty variant of calculate_hamming: counts the positions that are equal.
calculate_hamming_eq(B1, B2) ==
    [r \in 1..Len(B2) |->
        Cardinality({j \in 1..Len(B1.data) : B1.data[j] = B2[r].data[j]})]

\* Faulty variant of calculate_hamming: axis=1 is left out, every entry is the
\* count over the whole matrix.
calculate_hamming_no_axis(B1, B2) ==
    [r \in 1..Len(B2) |->
        Cardinality({rj \in (1..Len(B2)) \X (1..Len(B1.data)) :
                        B1.data[rj[2]] # B2[rj[1]].data[rj[2]]})]

\* np.count_nonzero(B1 != B2, axis=1): B1 is one array of bits, B2 the stacked rows.
calculate_hamming(B1, B2) ==
    [r \in 1..Len(B2) |->
        Cardinality({j \in 1..Len(B1.data) : B1.data[j] # B2[r].data[j]})]

HashKeysOf(item) == SelectSeq(item.annotations, IsHashKey)

\* any(isinstance(annotation, HashKey) for annotation in item.annotations)
AnyHashKey(item) == \E a \in 1..Len(item.annotations) : IsHashKey(item.annotations[a])

NotAnyHashKey(item) == ~AnyHashKey(item)

select_uninferenced_dataset(dataset) == SelectSeq(dataset, NotAnyHashKey)

\* dataset.run_model(launcher, append_annotation=True): every item gets the
\* launcher's output appended to its annotations; an output of None adds nothing.
run_model(dataset, outs) ==
    [i \in 1..Len(dataset) |->
        [dataset[i] EXCEPT !.annotations =
            IF IsHashKey(outs[i]) THEN Append(@, outs[i]) ELSE @]]

HasId(dataset, id) == \E j \in 1..Len(dataset) : dataset[j].id = id
WithId(dataset, id) == dataset[CHOOSE j \in 1..Len(dataset) : dataset[j].id = id]

\* dataset.update(other): merge by item identity, keeping the iteration order.
update(dataset, other) ==
    [i \in 1..Len(dataset) |->
        IF HasId(other, dataset[i].id) THEN WithId(other, dataset[i].id) ELSE dataset[i]]
    \o SelectSeq(other, LAMBDA it : ~HasId(dataset, it.id))

RECURSIVE Flatten(_)
\* for dataset in datasets: for item in dataset
Flatten(dss) == IF dss = <<>> THEN <<>> ELSE Head(dss) \o Flatten(Tail(dss))

\* The HashKey annotations of an item whose hash_key np.unpackbits accepts
\* (the others raise inside the try block and are skipped).
Unpackable(a) == IsUint8Array(a.hash_key)

\* Faulty variant of RowKeys: a HashKey that cannot be unpacked gives a row too.
RowKeysUnguarded(item) == HashKeysOf(item)

RowKeys(item) == SelectSeq(HashKeysOf(item), Unpackable)

\* Faulty variant of AllNone: any() in place of all().
AnyNone(keys) == \E i \in 1..Len(keys) : keys[i] = PyNone

\* all(i is None for i in database_keys)
AllNone(keys) == \A i \in 1..Len(keys) : keys[i] = PyNone

RECURSIVE ArgSortsOf(_, _)
ArgSortsOf(logits, rows) ==
    IF rows = {} THEN { <<>> }
    ELSE LET least == CHOOSE m \in {logits[r] : r \in rows} :
                          \A r \in rows : m <= logits[r]
         IN UNION { { <<r>> \o s : s \in ArgSortsOf(logits, rows \ {r}) } :
                    r \in {x \in rows : logits[x] = least} }

\* np.argsort(logits) with the default kind ("quicksort"), which is not stable:
\* every permutation that orders the rows by ascending distance is possible.
argsort(logits) == ArgSortsOf(logits, DOMAIN logits)

\* Faulty variant of PySlice: one item short for a non-negative k.
SliceShort(seq, k) ==
    SubSeq(seq, 1, IF k >= 0 THEN Min(k, Len(seq)) - 1 ELSE Max(Len(seq) + k, 0))

\* seq[:k] with Python's slice semantics (a negative k counts from the end).
PySlice(seq, k) ==
    SubSeq(seq, 1, IF k >= 0 THEN Min(k, Len(seq)) ELSE Max(Len(seq) + k, 0))

\* The `model` and `text_model` properties: created on first use, then cached.
model(m) == IF m.kind = "None" THEN VisualLauncher ELSE m
text_model(m) == IF m.kind = "None" THEN TextLauncher ELSE m

Resolved(raised, ret, calls) == [raised |-> raised, ret |-> ret, calls |-> calls]

\* Faulty variant of get_hash_key_from_item_query: no ambiguity check, the
\* first HashKey annotation is taken.
get_hash_key_first(query, m, e) ==
    LET query_keys_in_item == HashKeysOf(query)
    IN  IF Len(query_keys_in_item) >= 1
          THEN Resolved("", query_keys_in_item[1], <<>>)
        ELSE IF m.kind = "None"
          THEN Resolved("AttributeError", PyNone, <<>>)
        ELSE Resolved("", e, <<"infer_item">>)

\* Explorer._get_hash_key_from_item_query; m is self._model (read directly, not
\* through the `model` property) and e is what infer_item returns.
get_hash_key_from_item_query(query, m, e) ==
    LET query_keys_in_item == HashKeysOf(query)
    IN  IF Len(query_keys_in_item) > 1
          THEN Resolved("DatumaroError", PyNone, <<>>)
        ELSE IF Len(query_keys_in_item) = 1
          THEN Resolved("", query_keys_in_item[1], <<>>)
        ELSE IF m.kind = "None"
          THEN Resolved("AttributeError", PyNone, <<>>)
        ELSE Resolved("", e, <<"infer_item">>)

\* Faulty variant of get_hash_key_from_text_query: the text goes to infer_item.
get_hash_key_from_text_as_item(query, e) == Resolved("", e, <<"infer_item">>)

\* Explorer._get_hash_key_from_text_query; e is what infer_text returns.
get_hash_key_from_text_query(query, e) == Resolved("", e, <<"infer_text">>)

\* Faulty variant of resolve_query: whatever is not a DatasetItem is taken as text.
resolve_any_as_text(query, m, e) ==
    IF query.kind = "DatasetItem" THEN get_hash_key_from_item_query(query, m, e)
    ELSE get_hash_key_from_text_query(query, e)

\* explore_topk, lines 111-119: dispatch on the type of the query.
resolve_query(query, m, e) ==
    IF query.kind = "DatasetItem" THEN get_hash_key_from_item_query(query, m, e)
    ELSE IF query.kind = "str" THEN get_hash_key_from_text_query(query, e)
    ELSE Resolved("MediaTypeError", PyNone, <<>>)

\* Faulty variant of missing_hash_key: the check of line 121 is left out.
never_missing(query_key) == FALSE

\* explore_topk, line 121: `not isinstance(query_key, HashKey)`
missing_hash_key(query_key) == ~IsHashKey(query_key)

\* ------------------------------------------------------------------ state
VARIABLES
    pc,                 \* position in __init__, then "Ready" or "Failed"
    datasets,           \* the *datasets argument: a sequence of sequences of items
    datasets_to_infer,  \* __init__'s datasets_to_infer
    di,                 \* compute_hash_key: index of the next dataset to run the model on
    ci,                 \* __init__: index of the next item of the walk over the datasets
    inferred,           \* ids of the items the visual launcher was run on, in order
    error,              \* the exception __init__ raised, "" if none
    model_,             \* self._model
    text_model_,        \* self._text_model
    topk_,              \* self._topk
    database_keys,      \* database_keys, stored as self._database_keys at the end
    item_list,          \* item_list, stored as self._item_list at the end
    query,              \* last explore_topk call: the query argument
    topk,               \* last explore_topk call: the topk argument
    outcome,            \* last explore_topk call: "ok", the exception raised, or "none"
    calls,              \* last explore_topk call: launcher methods invoked, in order
    query_key,          \* last explore_topk call: the resolved query_key
    unpacked_key,       \* last explore_topk call: the unpacked query key, PyNone if none
    logits,             \* last explore_topk call: the distances, <<>> if not computed
    ind,                \* last explore_topk call: the argsort of logits
    result,             \* last explore_topk call: the returned list of items
    input,              \* history: the *datasets argument as it was passed
    prev,               \* history: an earlier explore_topk call, PyNone if none is kept
    tie_order           \* history: the order np.argsort gave to each logits it has sorted

ctor == <<pc, datasets, datasets_to_infer, di, ci, inferred, error>>
index == <<database_keys, item_list, topk_>>
handles == <<model_, text_model_>>
call == <<query, topk, outcome, calls, query_key, unpacked_key, logits, ind, result>>
history == <<input, prev, tie_order>>
vars == <<ctor, index, handles, call, history>>

\* Two datasets holding the items 1..n1 and n1+1..n, item i annotated anns[i].
TwoDatasets(n1, n, anns) ==
    << [i \in 1..n1 |-> DatasetItem(i, anns[i])],
       [i \in 1..(n - n1) |-> DatasetItem(n1 + i, anns[n1 + i])] >>

\* The inputs of the constructor: two datasets that share n <= MaxItems items
\* (the first is empty or holds n \div 2 of them), annotated from InputAnnotations.
InputDatasets ==
    UNION { { TwoDatasets(n1, n, anns) :
              anns \in [1..n -> InputAnnotations], n1 \in {0, n \div 2} } :
            n \in 0..MaxItems }

\* The example of the specification: three items whose fingerprints are
\* 00000000, 00000011 and 11111111; the last one may come from the launcher.
ExampleDatasets ==
    { TwoDatasets(n1, 3, <<<<HashKey(<<0>>)>>, <<HashKey(<<3>>)>>, a3>>) :
          n1 \in 0..3, a3 \in { <<HashKey(<<255>>)>>, <<>> } }

\* __init__, lines 50-54, called with the datasets dss.
InitWith(dss) ==
    /\ pc = "select"
    /\ datasets \in dss
    /\ datasets_to_infer = <<>>
    /\ di = 1
    /\ ci = 1
    /\ inferred = <<>>
    /\ error = ""
    /\ model_ = PyNone
    /\ text_model_ = PyNone
    /\ topk_ = TopkArg
    /\ database_keys = <<>>
    /\ item_list = <<>>
    /\ query = PyNone
    /\ topk = PyNone
    /\ outcome = "none"
    /\ calls = <<>>
    /\ query_key = PyNone
    /\ unpacked_key = PyNone
    /\ logits = <<>>
    /\ ind = <<>>
    /\ result = <<>>
    /\ input = datasets
    /\ prev = PyNone
    /\ tie_order = <<>>

Init == InitWith(InputDatasets)

InitExample == InitWith(ExampleDatasets)

\* The inputs of the runs that keep a history of the calls: the example with its
\* last item left to the launcher, and two items with the same fingerprint.
HistoryDatasets ==
    { TwoDatasets(1, 3, << <<HashKey(<<0>>)>>, <<HashKey(<<3>>)>>, <<>> >>),
      TwoDatasets(1, 2, << <<HashKey(<<0>>)>>, <<HashKey(<<0>>)>> >>) }

InitHistory == InitWith(HistoryDatasets)

\* __init__, line 56.
SelectUninferenced ==
    /\ pc = "select"
    /\ datasets_to_infer' =
           [d \in 1..Len(datasets) |-> select_uninferenced_dataset(datasets[d])]
    /\ pc' = "infer"
    /\ UNCHANGED <<datasets, di, ci, inferred, error, index, handles, call, history>>

\* compute_hash_key, lines 91-93, one dataset of datasets_to_infer per step: an
\* empty one is skipped, the others are run through self.model.
RunModel ==
    /\ pc = "infer"
    /\ di <= Len(datasets_to_infer)
    /\ IF Len(datasets_to_infer[di]) > 0
         THEN /\ model_' = model(model_)
              /\ \E outs \in [1..Len(datasets_to_infer[di]) -> EmbedOutputs] :
                     datasets_to_infer' =
                         [datasets_to_infer EXCEPT ![di] = run_model(@, outs)]
              /\ inferred' = inferred \o
                     [i \in 1..Len(datasets_to_infer[di]) |-> datasets_to_infer[di][i].id]
         ELSE UNCHANGED <<model_, datasets_to_infer, inferred>>
    /\ di' = di + 1
    /\ UNCHANGED <<pc, datasets, ci, error, index, text_model_, call, history>>

\* compute_hash_key, lines 94-96.
UpdateDatasets ==
    /\ pc = "infer"
    /\ di > Len(datasets_to_infer)
    /\ datasets' = [d \in 1..Len(datasets) |-> update(datasets[d], datasets_to_infer[d])]
    /\ pc' = "collect"
    /\ UNCHANGED <<datasets_to_infer, di, ci, inferred, error, index, handles, call, history>>

\* __init__, lines 59-69, one item per step: every HashKey annotation that
\* unpacks adds a row and the item.
CollectItem ==
    /\ pc = "collect"
    /\ ci <= Len(Flatten(datasets))
    /\ LET item == Flatten(datasets)[ci]
           keys == RowKeys(item)
       IN  /\ database_keys' = database_keys \o
                   [j \in 1..Len(keys) |-> unpackbits(keys[j].hash_key)]
           /\ item_list' = item_list \o [j \in 1..Len(keys) |-> item]
    /\ ci' = ci + 1
    /\ UNCHANGED <<pc, datasets, datasets_to_infer, di, inferred, error, topk_, handles, call, history>>

\* __init__, lines 71-76.
Finish ==
    /\ pc = "collect"
    /\ ci > Len(Flatten(datasets))
    /\ IF AllNone(database_keys)
         THEN pc' = "Failed" /\ error' = "ValueError"
         ELSE pc' = "Ready" /\ error' = ""
    /\ UNCHANGED <<datasets, datasets_to_infer, di, ci, inferred, index, handles, call, history>>

\* Faulty variant of uses_text_model: the text launcher is created by every call.
uses_any_model(launched) == TRUE

\* explore_topk, line 114: the text_model property is read when infer_text is invoked.
uses_text_model(launched) == "infer_text" \in {launched[i] : i \in 1..Len(launched)}

\* Faulty variant of argsort_of_build: ties are ordered anew by every call.
argsort_anew(dists) == argsort(dists)

\* np.argsort is a function of its input: it has no state and draws no random
\* number, so the order it gave to a logits vector once is the order it gives again.
\* Where no order is kept (tie_order is empty), it is any order argsort may give.
argsort_of_build(dists) ==
    IF dists \in DOMAIN tie_order THEN {tie_order[dists]} ELSE argsort(dists)

\* explore_topk, lines 106-132, but for what it leaves unchanged; e is what the
\* launcher returns if it is invoked.
Explore(q, k, e) ==
    /\ pc = "Ready"
    /\ query' = q
    /\ topk' = k
    /\ LET n == IF Falsy(k) THEN topk_ ELSE k.val
           r == resolve_query(q, model_, e)
       IN  /\ calls' = r.calls
           /\ text_model_' =
                  IF uses_text_model(r.calls) THEN text_model(text_model_) ELSE text_model_
           /\ IF r.raised # ""
                THEN /\ outcome' = r.raised
                     /\ query_key' = PyNone /\ unpacked_key' = PyNone
                     /\ logits' = <<>> /\ ind' = <<>> /\ result' = <<>>
              ELSE IF missing_hash_key(r.ret)
                THEN /\ outcome' = "ValueError"
                     /\ query_key' = r.ret /\ unpacked_key' = PyNone
                     /\ logits' = <<>> /\ ind' = <<>> /\ result' = <<>>
              ELSE IF ~IsHashKey(r.ret)
                THEN /\ outcome' = "AttributeError"
                     /\ query_key' = r.ret /\ unpacked_key' = PyNone
                     /\ logits' = <<>> /\ ind' = <<>> /\ result' = <<>>
              ELSE IF ~IsUint8Array(r.ret.hash_key)
                THEN /\ outcome' = "TypeError"
                     /\ query_key' = r.ret /\ unpacked_key' = PyNone
                     /\ logits' = <<>> /\ ind' = <<>> /\ result' = <<>>
              ELSE /\ outcome' = "ok"
                   /\ query_key' = r.ret
                   /\ unpacked_key' = unpackbits(r.ret.hash_key)
                   /\ logits' = calculate_hamming(unpacked_key', database_keys)
                   /\ ind' \in argsort_of_build(logits')
                   /\ result' = PySlice([i \in 1..Len(ind') |-> item_list[ind'[i]]], n)

\* Faulty variant of ExploreTopk: the topk of the call is stored as self._topk.
ExploreTopkStoresTopk(q, k, e) ==
    /\ Explore(q, k, e)
    /\ topk_' = IF Falsy(k) THEN topk_ ELSE k.val
    /\ UNCHANGED <<ctor, database_keys, item_list, model_>>

\* explore_topk, lines 98-132: no attribute of the Explorer is assigned, but for
\* the text launcher handle.
ExploreTopk(q, k, e) ==
    /\ Explore(q, k, e)
    /\ UNCHANGED <<ctor, index, model_>>

\* The launcher's possible outputs for a query: one value when it is not invoked.
OutputsFor(q) ==
    IF resolve_query(q, model_, PyNone).calls = <<>> THEN {PyNone} ELSE EmbedOutputs

Query ==
    /\ \E q \in Queries, k \in TopkArgs : \E e \in OutputsFor(q) : ExploreTopk(q, k, e)
    /\ UNCHANGED history

Next ==
    \/ SelectUninferenced
    \/ RunModel
    \/ UpdateDatasets
    \/ CollectItem
    \/ Finish
    \/ Query

Spec == Init /\ [][Next]_vars

\* The last call, as kept in prev.
LastCall ==
    [kind |-> "call", query |-> query, topk |-> topk, outcome |-> outcome,
     query_key |-> query_key, result |-> result]

\* explore_topk as in Query, with the history kept: the order given to the
\* sorted logits, and the last call or the one that was kept before.
QueryWithHistory ==
    /\ \E q \in Queries, k \in TopkArgs : \E e \in OutputsFor(q) :
           /\ Explore(q, k, e)
           /\ UNCHANGED <<ctor, index, model_>>
    /\ tie_order' = IF outcome' = "ok" THEN (logits' :> ind') @@ tie_order ELSE tie_order
    /\ prev' \in (IF outcome = "none" THEN {prev} ELSE {prev, LastCall})
    /\ UNCHANGED input

NextWithHistory ==
    \/ SelectUninferenced
    \/ RunModel
    \/ UpdateDatasets
    \/ CollectItem
    \/ Finish
    \/ QueryWithHistory

SpecHistory == InitHistory /\ [][NextWithHistory]_vars

\* The arrays of HammingBits bits, and the matrices of at most HammingRows such rows.
BitRows == { [kind |-> "ndarray", data |-> b] : b \in [1..HammingBits -> {0, 1}] }
BitMatrices == UNION { [1..m -> BitRows] : m \in 0..HammingRows }

\* calculate_hamming on its own: any matrix of bit rows stands for B2.
InitHamming ==
    /\ pc = "hamming"
    /\ database_keys \in BitMatrices
    /\ datasets = <<>> /\ datasets_to_infer = <<>> /\ di = 1 /\ ci = 1
    /\ inferred = <<>> /\ error = ""
    /\ model_ = PyNone /\ text_model_ = PyNone /\ topk_ = TopkArg
    /\ item_list = <<>>
    /\ query = PyNone /\ topk = PyNone /\ outcome = "none" /\ calls = <<>>
    /\ query_key = PyNone /\ unpacked_key = PyNone
    /\ logits = <<>> /\ ind = <<>> /\ result = <<>>
    /\ input = <<>> /\ prev = PyNone /\ tie_order = <<>>

\* explore_topk, line 126, for any array of bits B1.
Hamming ==
    /\ pc = "hamming"
    /\ \E B1 \in BitRows :
           /\ unpacked_key' = B1
           /\ logits' = calculate_hamming(B1, database_keys)
    /\ UNCHANGED <<ctor, index, handles, history,
                   query, topk, outcome, calls, query_key, ind, result>>

SpecHamming == InitHamming /\ [][Hamming]_vars

SpecExample == InitExample /\ [][Next]_vars

\* ----------------------------------------------------- claims: vocabulary
\* An explore_topk call has been made on the Ready index.
Called == pc = "Ready" /\ outcome # "none"

NumHashKeys(item) == Cardinality({a \in 1..Len(item.annotations) : IsHashKey(item.annotations[a])})

\* The number of bit positions at which the packed key h and the row differ.
Distance(h, row) ==
    Cardinality({j \in 1..Len(row.data) :
        row.data[j] # (h[((j - 1) \div 8) + 1] \div Pow2(7 - ((j - 1) % 8))) % 2})

\* The last call ranked the index against the HashKey key: the distances are the
\* Hamming distances from key to every row, ind is a permutation of the rows in
\* ascending distance, and the result holds items in the order of ind.
RankedAgainst(key) ==
    /\ outcome = "ok"
    /\ query_key = key
    /\ Len(logits) = Len(database_keys)
    /\ \A r \in 1..Len(database_keys) : logits[r] = Distance(key.hash_key, database_keys[r])
    /\ Len(ind) = Len(database_keys)
    /\ {ind[i] : i \in 1..Len(ind)} = 1..Len(database_keys)
    /\ \A i \in 1..Len(ind), j \in 1..Len(ind) : i < j => logits[ind[i]] <= logits[ind[j]]
    /\ Len(result) <= Len(ind)
    /\ \A i \in 1..Len(result) : result[i] = item_list[ind[i]]

\* No distance was computed and nothing was returned by the last call.
NothingRanked == logits = <<>> /\ ind = <<>> /\ result = <<>>

\* The number of (item, annotation) pairs of the datasets that are HashKey
\* annotations np.unpackbits accepts.
NumRows ==
    Cardinality({ia \in (1..Len(Flatten(datasets))) \X (1..2) :
        /\ ia[2] <= Len(Flatten(datasets)[ia[1]].annotations)
        /\ IsHashKey(Flatten(datasets)[ia[1]].annotations[ia[2]])
        /\ IsUint8Array(Flatten(datasets)[ia[1]].annotations[ia[2]].hash_key)})

SomeAmbiguousItem ==
    \E i \in 1..Len(Flatten(datasets)) : NumHashKeys(Flatten(datasets)[i]) > 1

\* ------------------------------------------------------------------- C1
\* C1 (as claimed): on every Ready index, an item query with no HashKey
\* annotation invokes infer_item once and, when a HashKey comes back, is ranked
\* against it; an item query with exactly one HashKey annotation is ranked
\* against that annotation without any launcher call.
C1_ItemQueryResolution ==
    (Called /\ query.kind = "DatasetItem") =>
        /\ NumHashKeys(query) = 0 =>
               /\ calls = <<"infer_item">>
               /\ IsHashKey(query_key) => RankedAgainst(query_key)
        /\ NumHashKeys(query) = 1 =>
               /\ calls = <<>>
               /\ RankedAgainst(HashKeysOf(query)[1])

\* ------------------------------------------------------------------- C2
\* C2 (as claimed): when some input item carries more than one HashKey
\* annotation, construction ends with an ambiguity error, never in Ready, and
\* no row of that item is indexed.
C2_AmbiguousConstructionFails ==
    (SomeAmbiguousItem /\ pc \in {"Ready", "Failed"}) =>
        /\ pc = "Failed"
        /\ error = "DatumaroError"
        /\ \A r \in 1..Len(item_list) : NumHashKeys(item_list[r]) <= 1

\* ------------------------------------------------------------------- C3
\* C3 (as claimed): the ranking is a stable sort by ascending distance: of two
\* returned rows at the same distance, the one with the smaller row index comes
\* first in the result.
C3_StableRanking ==
    (Called /\ outcome = "ok") =>
        \A p \in 1..Len(result), q \in 1..Len(result) :
            (p < q /\ logits[ind[p]] = logits[ind[q]]) => ind[p] < ind[q]

\* ------------------------------------------------------------------- C4
\* C4 (as claimed): a successful call with an integer topk <= 0 returns the
\* empty list; only topk = None uses the configured default.
C4_NonPositiveTopkIsEmpty ==
    (Called /\ outcome = "ok") =>
        /\ (topk.kind = "int" /\ topk.val <= 0) => result = <<>>
        /\ topk.kind = "None" => Len(result) = Min(topk_, Len(item_list))

\* ------------------------------------------------------------------- C5
Row(bits) == [kind |-> "ndarray", data |-> bits]

\* The example: the rows 00000000, 00000011, 11111111 are indexed, the query
\* fingerprint is 00000001 and topk is 2.
ExampleCase ==
    /\ Called
    /\ outcome = "ok"
    /\ database_keys = << Row(<<0, 0, 0, 0, 0, 0, 0, 0>>),
                          Row(<<0, 0, 0, 0, 0, 0, 1, 1>>),
                          Row(<<1, 1, 1, 1, 1, 1, 1, 1>>) >>
    /\ query_key = HashKey(<<1>>)
    /\ topk = PyInt(2)

\* C5 (as claimed): in the example the distances are 1, 3, 7 and the result is
\* the first item then the second.
C5_ExampleAsClaimed ==
    ExampleCase => (logits = <<1, 3, 7>> /\ result = <<item_list[1], item_list[2]>>)

\* C5 (amended): in the example the distances are 1, 1, 7 and the result
\* consists of exactly the first and the second item (two entries).
C5_Example ==
    ExampleCase =>
        /\ logits = <<1, 1, 7>>
        /\ Len(result) = 2
        /\ {result[1], result[2]} = {item_list[1], item_list[2]}
        /\ item_list[1] # item_list[2]

C5_Witness == ExampleCase

\* ------------------------------------------------------------------- C6
\* The topk of the last call is positive: absent (the positive default is used)
\* or an integer > 0.
TopkOfCall == IF topk.kind = "int" THEN topk.val ELSE topk_
PositiveTopk == topk.kind = "None" \/ (topk.kind = "int" /\ topk.val > 0)

\* C6: a call with a positive topk whose query key resolved succeeds whatever
\* the size of the index, and returns exactly min(topk, M) items: those at the
\* first min(topk, M) positions of an ascending-distance order of all M rows
\* (so no row left out is strictly closer than a returned one).
C6_TopKPrefix ==
    (Called /\ PositiveTopk /\ IsHashKey(query_key)) =>
        /\ RankedAgainst(query_key)
        /\ Len(result) = Min(TopkOfCall, Len(database_keys))
        /\ \A i \in 1..Len(result), r \in 1..Len(database_keys) :
               (r \notin {ind[p] : p \in 1..Len(result)}) => logits[ind[i]] <= logits[r]

C6_Witness ==
    /\ Called /\ outcome = "ok"
    /\ topk.kind = "int" /\ topk.val > Len(database_keys)
    /\ Len(result) = Len(database_keys)
    /\ Len(database_keys) > 1

\* ------------------------------------------------------------------- C7
\* C7: an explore_topk call whose query item carries more than one HashKey
\* annotation raises the ambiguity error (DatumaroError) without any launcher
\* call and without computing a distance, and leaves the index and the
\* launcher handles as they were.
C7_AmbiguousQueryFails ==
    [][ (pc = "Ready" /\ query'.kind = "DatasetItem" /\ NumHashKeys(query') > 1) =>
            /\ outcome' = "DatumaroError"
            /\ calls' = <<>>
            /\ NothingRanked'
            /\ UNCHANGED <<index, handles>> ]_vars

C7_Witness ==
    /\ Called /\ query.kind = "DatasetItem" /\ NumHashKeys(query) > 1
    /\ outcome = "DatumaroError"
    /\ model_ # PyNone

\* ------------------------------------------------------------------- C8
\* C8: construction fails with the empty-index error (ValueError) exactly when
\* no row was collected from the datasets, in particular when no item ends up
\* with a HashKey (no items at all, or every inference returned None), and then
\* nothing is indexed; it reaches Ready whenever at least one row was collected.
C8_EmptyIndexRejected ==
    (pc \in {"Ready", "Failed"}) =>
        /\ pc = "Failed" <=> NumRows = 0
        /\ pc = "Failed" => (error = "ValueError" /\ database_keys = <<>> /\ item_list = <<>>)
        /\ pc = "Ready" => (error = "" /\ Len(database_keys) = NumRows)
        /\ (\A i \in 1..Len(Flatten(datasets)) : NumHashKeys(Flatten(datasets)[i]) = 0)
               => pc = "Failed"

C8_Witness ==
    /\ pc = "Failed"
    /\ Len(inferred) = Len(Flatten(datasets))
    /\ Len(inferred) > 1

\* ------------------------------------------------------------------- C9
\* C9: when the launcher invoked for the query (infer_item or infer_text)
\* returns no HashKey, explore_topk raises the missing-key error (ValueError):
\* no distance is computed, nothing is returned and the index is unchanged.
C9_MissingQueryKeyFails ==
    [][ (pc = "Ready" /\ calls' # <<>> /\ ~IsHashKey(query_key')) =>
            /\ outcome' = "ValueError"
            /\ NothingRanked'
            /\ UNCHANGED index ]_vars

C9_Witness ==
    /\ Called /\ calls = <<"infer_item">> /\ ~IsHashKey(query_key)
    /\ outcome = "ValueError"

\* ------------------------------------------------------------------ C10
\* C10: an explore_topk call whose query is neither a DatasetItem nor a str
\* raises MediaTypeError whatever topk is, invokes no launcher and leaves the
\* index and the launcher handles as they were.
C10_UnsupportedQueryFails ==
    [][ (pc = "Ready" /\ query'.kind \notin {"DatasetItem", "str"}) =>
            /\ outcome' = "MediaTypeError"
            /\ calls' = <<>>
            /\ NothingRanked'
            /\ UNCHANGED <<index, handles>> ]_vars

C10_Witness ==
    /\ Called /\ query.kind \notin {"DatasetItem", "str"}
    /\ outcome = "MediaTypeError"
    /\ topk = PyInt(-1)

\* ------------------------------------------------------------------ C11
\* C11: every explore_topk call whose query is a str invokes infer_text exactly
\* once and no other launcher method, also when the call kept in the history
\* had the same text as its query.
C11_TextQueryInfersOnce ==
    (Called /\ query.kind = "str") =>
        /\ calls = <<"infer_text">>
        /\ text_model_ = TextLauncher

C11_Witness ==
    /\ Called /\ query.kind = "str" /\ calls = <<"infer_text">>
    /\ prev.kind = "call" /\ prev.query = query /\ prev.outcome = "ok"
    /\ outcome = "ok"

RECURSIVE Differing(_, _, _)
\* The number of positions 1..n at which the bit sequences a and b differ.
Differing(a, b, n) ==
    IF n = 0 THEN 0 ELSE Differing(a, b, n - 1) + (IF a[n] = b[n] THEN 0 ELSE 1)

HammingApplied == pc = "hamming" /\ unpacked_key # PyNone

\* C13: for an array A of N bits and a matrix C of M rows of N bits,
\* calculate_hamming(A, C) has M entries, entry r being the number of positions
\* at which A and row r of C differ: between 0 and N, and 0 for a row equal to A.
C13_HammingCorrect ==
    HammingApplied =>
        /\ Len(logits) = Len(database_keys)
        /\ \A r \in 1..Len(database_keys) :
               /\ logits[r] = Differing(unpacked_key.data, database_keys[r].data, HammingBits)
               /\ logits[r] \in 0..HammingBits
               /\ database_keys[r] = unpacked_key => logits[r] = 0

C13_Witness ==
    /\ HammingApplied
    /\ Len(database_keys) = 2
    /\ database_keys[1] = unpacked_key /\ logits[1] = 0
    /\ logits[2] = HammingBits

\* ------------------------------------------------------------------ C14
\* The rows that refer to the item with this id.
RowsOf(id) == {r \in 1..Len(item_list) : item_list[r].id = id}

\* C14 (as claimed): when construction succeeds and every item of the datasets
\* ends inference with a HashKey annotation, there are as many rows as items
\* and every item is referred to by exactly one row.
C14_OneRowPerItem ==
    (pc = "Ready" /\ \A i \in 1..Len(Flatten(datasets)) : AnyHashKey(Flatten(datasets)[i])) =>
        /\ Len(database_keys) = Len(Flatten(datasets))
        /\ \A i \in 1..Len(Flatten(datasets)) :
               Cardinality(RowsOf(Flatten(datasets)[i].id)) = 1

\* ------------------------------------------------------------------ C15
\* The launcher was run during construction on items without a HashKey only,
\* once each; once the datasets are updated, an item that came with a HashKey
\* is as it came and an item that came without is the copy the launcher was run
\* on, in the dataset and at the place it came in.
InferenceOnlyWhereNeeded ==
    /\ \A k \in 1..Len(inferred) :
           \E i \in 1..Len(Flatten(input)) :
               /\ Flatten(input)[i].id = inferred[k]
               /\ ~AnyHashKey(Flatten(input)[i])
    /\ \A k \in 1..Len(inferred), l \in 1..Len(inferred) :
           inferred[k] = inferred[l] => k = l
    /\ (\A i \in 1..Len(Flatten(input)) : AnyHashKey(Flatten(input)[i]))
           => (inferred = <<>> /\ model_ = PyNone)
    /\ pc \in {"collect", "Ready", "Failed"} =>
           /\ Len(datasets) = Len(input)
           /\ \A d \in 1..Len(input) :
                  /\ Len(datasets[d]) = Len(input[d])
                  /\ \A i \in 1..Len(input[d]) :
                         IF AnyHashKey(input[d][i])
                           THEN datasets[d][i] = input[d][i]
                           ELSE /\ datasets[d][i].id = input[d][i].id
                                /\ \E k \in 1..Len(inferred) : inferred[k] = input[d][i].id
                                /\ HasId(datasets_to_infer[d], input[d][i].id)
                                /\ datasets[d][i] = WithId(datasets_to_infer[d], input[d][i].id)
                                /\ \/ datasets[d][i].annotations = input[d][i].annotations
                                   \/ \E h \in EmbedOutputs :
                                          /\ IsHashKey(h)
                                          /\ datasets[d][i].annotations =
                                                 Append(input[d][i].annotations, h)

\* C15: InferenceOnlyWhereNeeded, and in a Ready index every item
\* that came with a HashKey is indexed under that HashKey.
C15_InferenceAndIndexing ==
    /\ InferenceOnlyWhereNeeded
    /\ pc = "Ready" =>
           \A i \in 1..Len(Flatten(input)) :
               AnyHashKey(Flatten(input)[i]) =>
                   \E r \in 1..Len(item_list) :
                       /\ item_list[r] = Flatten(input)[i]
                       /\ \E a \in 1..Len(Flatten(input)[i].annotations) :
                              /\ IsHashKey(Flatten(input)[i].annotations[a])
                              /\ database_keys[r] =
                                     unpackbits(Flatten(input)[i].annotations[a].hash_key)

\* ------------------------------------------------------------------ C16
\* The HashKey annotations of item that np.unpackbits accepts.
Readable(item) ==
    {a \in 1..Len(item.annotations) :
        IsHashKey(item.annotations[a]) /\ IsUint8Array(item.annotations[a].hash_key)}

\* C16: in every state the matrix and the item list have the same length and
\* row r is the unpacking of a HashKey of item_list[r]; an item the walk has
\* passed has one row per HashKey that could be unpacked, so a HashKey whose
\* unpacking fails has added neither a row nor an item, and an item the walk has
\* not reached has none.
C16_RowsMatchItems ==
    /\ Len(database_keys) = Len(item_list)
    /\ \A r \in 1..Len(item_list) :
           \E a \in Readable(item_list[r]) :
               database_keys[r] = unpackbits(item_list[r].annotations[a].hash_key)
    /\ \A i \in 1..Len(Flatten(datasets)) :
           Cardinality(RowsOf(Flatten(datasets)[i].id)) =
               IF i < ci THEN Cardinality(Readable(Flatten(datasets)[i])) ELSE 0

C16_Witness ==
    /\ pc = "Ready"
    /\ Len(Flatten(datasets)) = 2
    /\ Len(database_keys) = 1
    /\ Len(item_list) = 1
    /\ \E i \in 1..2 :
           /\ AnyHashKey(Flatten(datasets)[i])
           /\ Readable(Flatten(datasets)[i]) = {}
           /\ RowsOf(Flatten(datasets)[i].id) = {}

\* ------------------------------------------------------------------ C17
\* C17: every step taken from a Ready index, whatever the query and topk and
\* whether the call returns or raises, leaves the matrix, the item list and the
\* default topk as they were.
C17_QueriesLeaveIndex == [][pc = "Ready" => UNCHANGED index]_vars

C17_Witness ==
    /\ Called
    /\ outcome = "ok"
    /\ query.kind = "str"
    /\ topk.kind = "int"
    /\ topk.val > 0
    /\ topk.val # topk_
    /\ Len(result) < Len(item_list)

====
